---- MODULE Spec2Model ----
(***************************************************************************)
(* eddata.stochastic_pair: the four stochastic-pair datasets               *)
(* (StochasticPairs, StochasticPairsWithMask,                              *)
(* StochasticPairsWithSuperpixels, StochasticPairsWithMaskWithSuperpixels) *)
(* as a state machine: construction (__init__ -> make_labels ->            *)
(* add_choices) and get_example.                                           *)
(*                                                                         *)
(* Conventions.  A csv file is the sequence of its lines, each line the    *)
(* sequence of its comma-separated fields.  Row indices are Python's       *)
(* (0-based); At(list, i) reads a Python list.  A dict is a function on    *)
(* its keys.  An image is one row of pixels (axis 1 of the array), so a    *)
(* horizontal flip reverses it.  A path is the pair <<root, relative>>.    *)
(***************************************************************************)
EXTENDS Integers, Sequences, FiniteSets, TLC

VARIABLES
    variant,        \* the class that is instantiated
    config,         \* the config dict handed to __init__
    csv,            \* the content of the file config["data_csv"]
    files,          \* the image files on disk: path -> decoded pixels
    phase,          \* "new" | "ready" (constructed) | "failed" (__init__ raised)
    self,           \* the attributes of the dataset object
    prng,           \* the state of self.prng
    last,           \* the outcome of the latest get_example call
    failed_before   \* some earlier get_example call raised

vars == <<variant, config, csv, files, phase, self, prng, last, failed_before>>

----------------------------------------------------------------------------
(* Bounds of the model *)

MaxRows == 3
MaxFields == 3
ImgW == 3
SpatialSize == 2

----------------------------------------------------------------------------
(* Python helpers *)

Range(s) == {s[k] : k \in 1..Len(s)}

At(list, i) == list[i + 1]

\* dict.get(key, default)
Get(d, key, default) == IF key \in DOMAIN d THEN d[key] ELSE default

\* dict.update({key: value})
Update(d, key, value) ==
    [x \in (DOMAIN d) \cup {key} |-> IF x = key THEN value ELSE d[x]]

Reverse(s) == [k \in 1..Len(s) |-> s[Len(s) + 1 - k]]

\* os.path.join(root, x)
add_root_path(root, x) == <<root, x>>

Variants == {"StochasticPairs", "StochasticPairsWithMask",
             "StochasticPairsWithSuperpixels",
             "StochasticPairsWithMaskWithSuperpixels"}

\* the sentinel string "from_csv" (a one-element list here, so that it
\* compares with the column lists)
FromCsv == <<"from_csv">>

expected_data_csv_columns == <<"character_id", "relative_file_path_">>

expected_data_header ==
    <<"character_id", "relative_file_path_", "relative_mask_path_">>

\* "file_path_" in label_name
ContainsFilePath(name) == name \in {"relative_file_path_", "file_path_"}

\* "relative_" in label_name
ContainsRelative(name) ==
    name \in {"relative_file_path_", "relative_mask_path_"}

\* label_name.replace("relative_", "")
StripRelative(name) ==
    CASE name = "relative_file_path_" -> "file_path_"
      [] name = "relative_mask_path_" -> "mask_path_"
      [] OTHER -> name

----------------------------------------------------------------------------
(* The random source (PRNGMixin.prng, a numpy RandomState): a deterministic *)
(* generator; choice(a) advances the state once and picks by the new state. *)

PrngStates == 0..7

PrngStep(p) == (5 * p + 3) % Cardinality(PrngStates)

PrngChoice(p, a) ==
    [state |-> PrngStep(p),
     value |-> a[((PrngStep(p) * Len(a)) \div Cardinality(PrngStates)) + 1]]

----------------------------------------------------------------------------
(* Catalog loading *)

\* pd.read_csv(csv) / pd.read_csv(csv, header=None); an empty file raises.
\* Field values are kept as read: on the ids used here pandas' integer
\* parsing and string equality group the rows alike.
IntColumn(k) == <<"0", "1", "2", "3", "4", "5">>[k]

read_csv(lines, header_none) ==
    IF lines = <<>> THEN [ok |-> FALSE, columns |-> <<>>, rows |-> <<>>]
    ELSE IF header_none
         THEN [ok |-> TRUE,
               columns |-> [k \in 1..Len(lines[1]) |-> IntColumn(k)],
               rows |-> lines]
         ELSE [ok |-> TRUE, columns |-> lines[1], rows |-> Tail(lines)]

\* the column-oriented dict of a table with the given column names
Columns(names, rows) ==
    [name \in Range(names) |->
        LET c == CHOOSE k \in 1..Len(names) : names[k] = name
        IN  [r \in 1..Len(rows) |-> rows[r][c]]]

NoLabels == [ok |-> FALSE, labels |-> <<>>, length |-> 0]

\* StochasticPairs.make_labels, the loop over self.data_csv_columns
RECURSIVE add_file_paths(_, _, _, _)
add_file_paths(labels, columns, k, root) ==
    IF k > Len(columns) THEN [ok |-> TRUE, labels |-> labels]
    ELSE IF ContainsFilePath(columns[k])
         THEN IF columns[k] \notin DOMAIN labels
              THEN [ok |-> FALSE, labels |-> labels]      \* KeyError
              ELSE add_file_paths(
                      Update(labels, StripRelative(columns[k]),
                             [r \in 1..Len(labels[columns[k]]) |->
                                 add_root_path(root, labels[columns[k]][r])]),
                      columns, k + 1, root)
         ELSE add_file_paths(labels, columns, k + 1, root)

make_labels_StochasticPairs(cfg, root, csv_has_header, lines) ==
    LET data_csv_columns ==
            Get(cfg, "data_csv_columns", expected_data_csv_columns)
        df == IF data_csv_columns = FromCsv THEN read_csv(lines, FALSE)
              ELSE read_csv(lines, ~csv_has_header)
        names == IF data_csv_columns = FromCsv THEN df.columns
                 ELSE [k \in 1..Len(df.columns) |->
                          IF k <= Len(data_csv_columns)
                          THEN data_csv_columns[k] ELSE df.columns[k]]
        self_columns == IF data_csv_columns = FromCsv THEN df.columns
                        ELSE data_csv_columns
        added == add_file_paths(Columns(names, df.rows), self_columns, 1, root)
    IN  IF ~df.ok \/ ~added.ok THEN NoLabels
        ELSE [ok |-> TRUE, labels |-> added.labels,
              length |-> Cardinality(DOMAIN added.labels)]

\* make_labels of the three other classes, the loop over header
RECURSIVE add_relative_paths(_, _, _, _, _)
add_relative_paths(labels, header, k, root, lines) ==
    IF k > Len(header) THEN labels
    ELSE IF ContainsRelative(header[k])
         THEN add_relative_paths(
                 Update(labels, StripRelative(header[k]),
                        [r \in 1..Len(lines) |->
                            add_root_path(root, lines[r][k])]),
                 header, k + 1, root, lines)
         ELSE add_relative_paths(labels, header, k + 1, root, lines)

make_labels_WithMask(cfg, root, csv_has_header, lines) ==
    LET header == Get(cfg, "data_csv_header", expected_data_header)
    IN  IF header = FromCsv THEN NoLabels               \* NotImplementedError
        ELSE IF \E r \in 1..Len(lines) : Len(lines[r]) < Len(header)
             THEN NoLabels                              \* IndexError
             ELSE [ok |-> TRUE,
                   labels |-> add_relative_paths(Columns(header, lines),
                                                 header, 1, root, lines),
                   length |-> Len(lines)]

\* eddata.utils.add_choices: for every row the row indices of its identity
add_choices_first_only(labels) ==
    IF "character_id" \notin DOMAIN labels THEN [ok |-> FALSE, labels |-> labels]
    ELSE LET cid == labels["character_id"]
         IN  [ok |-> TRUE,
              labels |-> Update(labels, "choices",
                  [i \in 1..Len(cid) |->
                      <<(CHOOSE k \in 1..Len(cid) :
                            /\ cid[k] = cid[i]
                            /\ \A m \in 1..(k - 1) : cid[m] # cid[i]) - 1>>])]

add_choices(labels) ==
    IF "character_id" \notin DOMAIN labels THEN [ok |-> FALSE, labels |-> labels]
    ELSE LET cid == labels["character_id"]
             indices == [k \in 1..Len(cid) |-> k - 1]
         IN  [ok |-> TRUE,
              labels |-> Update(labels, "choices",
                  [i \in 1..Len(cid) |->
                      LET same(c) == At(cid, c) = cid[i]
                      IN  SelectSeq(indices, same)])]


\* the two other classes repeat StochasticPairsWithMask.make_labels verbatim
make_labels_WithSuperpixels(cfg, root, csv_has_header, lines) ==
    make_labels_WithMask(cfg, root, csv_has_header, lines)

make_labels_WithMaskWithSuperpixels(cfg, root, csv_has_header, lines) ==
    make_labels_WithMask(cfg, root, csv_has_header, lines)

\* self.make_labels(), dispatched on the class
make_labels(v, cfg, root, csv_has_header, lines) ==
    CASE v = "StochasticPairs" ->
            make_labels_StochasticPairs(cfg, root, csv_has_header, lines)
      [] v = "StochasticPairsWithMask" ->
            make_labels_WithMask(cfg, root, csv_has_header, lines)
      [] v = "StochasticPairsWithSuperpixels" ->
            make_labels_WithSuperpixels(cfg, root, csv_has_header, lines)
      [] v = "StochasticPairsWithMaskWithSuperpixels" ->
            make_labels_WithMaskWithSuperpixels(cfg, root, csv_has_header, lines)

----------------------------------------------------------------------------
(* Construction *)

NoObject == [ok |-> FALSE, self |-> <<>>]

\* StochasticPairs.__init__, on top of the attributes a subclass set before
init_StochasticPairs(v, attrs, cfg, lines) ==
    LET own == [size |-> cfg["spatial_size"],
                root |-> cfg["data_root"],
                csv |-> cfg["data_csv"],
                csv_has_header |-> Get(cfg, "data_csv_has_header", FALSE),
                avoid_identity |-> Get(cfg, "data_avoid_identity", TRUE),
                flip |-> Get(cfg, "data_flip", FALSE)]
        made == make_labels(v, cfg, own.root, own.csv_has_header, lines)
        chosen == add_choices(made.labels)
    IN  IF ~made.ok THEN NoObject
        ELSE IF ~chosen.ok THEN NoObject
        ELSE [ok |-> TRUE,
              self |-> attrs @@ own @@
                       [labels |-> chosen.labels, length |-> made.length]]

init_WithMask(v, attrs, cfg, lines) ==
    init_StochasticPairs(v,
        attrs @@ [mask_label |-> Get(cfg, "mask_label", 1),
                  invert_mask |-> Get(cfg, "invert_mask", FALSE)],
        cfg, lines)

default_superpixel_params == [n_segments |-> 250, compactness |-> 10, sigma |-> 1]

with_superpixel_params(made, cfg) ==
    IF ~made.ok THEN made
    ELSE [ok |-> TRUE,
          self |-> made.self @@
                   [superpixel_params |->
                       Get(cfg, "superpixel_params", default_superpixel_params)]]

init_WithSuperpixels(v, cfg, lines) ==
    with_superpixel_params(init_StochasticPairs(v, <<>>, cfg, lines), cfg)

init_WithMaskWithSuperpixels(v, cfg, lines) ==
    with_superpixel_params(init_WithMask(v, <<>>, cfg, lines), cfg)

----------------------------------------------------------------------------
(* Image collaborators *)

\* edflow resize_float32(image, size): resample the row to `size` pixels
resize(image, size) ==
    [k \in 1..size |-> image[(((k - 1) * Len(image)) \div size) + 1]]

\* skimage slic(view, **params): a label id per pixel
slic(view, params) == [k \in 1..Len(view) |-> k - 1]

\* resize_labels(labels, (size, size)) on a 2-D label image: nearest neighbour
resize_labels(labels, size) ==
    [k \in 1..size |-> labels[(((k - 1) * Len(labels)) \div size) + 1]]

\* ndarray.astype(np.int32): label ids are pixel counts, far inside the
\* 32-bit range, where the cast keeps the value
Int32(x) == IF x <= 2147483647 THEN x ELSE x - 2147483647 - 2147483647 - 2

astype_int32(a) == [k \in 1..Len(a) |-> Int32(a[k])]

\* mask = mask == mask_label; optionally negated; image * 1.0 * mask
apply_mask_threshold(image, mask, mask_label, invert_mask) ==
    [k \in 1..Len(image) |->
        IF (mask[k] >= mask_label) # invert_mask THEN image[k] * 1 ELSE 0]

apply_mask(image, mask, mask_label, invert_mask) ==
    [k \in 1..Len(image) |->
        IF (mask[k] = mask_label) # invert_mask THEN image[k] * 1 ELSE 0]

NoImage == [ok |-> FALSE, image |-> <<>>, drew |-> FALSE, flipped |-> FALSE,
            resize_in |-> <<>>]

\* if self.flip: if self.prng.choice([True, False]): image = np.flip(image, axis=1)
random_flip(s, p, image, resize_in) ==
    LET coin == PrngChoice(p, <<TRUE, FALSE>>)
    IN  IF s.flip
        THEN [ok |-> TRUE, prng |-> coin.state, drew |-> TRUE,
              flipped |-> coin.value, resize_in |-> resize_in,
              image |-> IF coin.value THEN Reverse(image) ELSE image]
        ELSE [ok |-> TRUE, prng |-> p, drew |-> FALSE, flipped |-> FALSE,
              resize_in |-> resize_in, image |-> image]

preprocess_image_StochasticPairs(s, fs, p, image_path) ==
    IF image_path \notin DOMAIN fs THEN NoImage @@ [prng |-> p]
    ELSE random_flip(s, p, resize(fs[image_path], s.size), fs[image_path])

preprocess_image_WithMask(s, fs, p, image_path, mask_path) ==
    IF image_path \notin DOMAIN fs \/ mask_path \notin DOMAIN fs
    THEN NoImage @@ [prng |-> p]
    ELSE LET image == apply_mask(fs[image_path], fs[mask_path],
                                 s.mask_label, s.invert_mask)
         IN  random_flip(s, p, resize(image, s.size), image)

preprocess_image_WithSuperpixels(s, fs, p, image_path) ==
    IF image_path \notin DOMAIN fs THEN NoImage @@ [prng |-> p]
    ELSE [ok |-> TRUE, prng |-> p, drew |-> FALSE, flipped |-> FALSE,
          resize_in |-> fs[image_path],
          image |-> resize(fs[image_path], s.size)]

preprocess_image_WithMaskWithSuperpixels(s, fs, p, image_path, mask_path) ==
    IF image_path \notin DOMAIN fs \/ mask_path \notin DOMAIN fs
    THEN NoImage @@ [prng |-> p]
    ELSE LET image == apply_mask(fs[image_path], fs[mask_path],
                                 s.mask_label, s.invert_mask)
         IN  [ok |-> TRUE, prng |-> p, drew |-> FALSE, flipped |-> FALSE,
              resize_in |-> image, image |-> resize(image, s.size)]


----------------------------------------------------------------------------
(* get_example *)

\* choices = self.labels["choices"][i]; the filtered list when identity is
\* avoided.  `pool` is the local list drawn from, `labels` the table after.
select_pool_keep_identity(s, i) ==
    [pool |-> At(s.labels["choices"], i), labels |-> s.labels]

select_pool_always_filter(s, i) ==
    LET choices == At(s.labels["choices"], i)
        other(c) == c # i
    IN  [pool |-> IF s.avoid_identity THEN SelectSeq(choices, other)
                  ELSE choices,
         labels |-> s.labels]

select_pool_in_place(s, i) ==
    LET choices == At(s.labels["choices"], i)
        other(c) == c # i
        pool == IF s.avoid_identity /\ Len(choices) > 1
                THEN SelectSeq(choices, other) ELSE choices
    IN  [pool |-> pool,
         labels |-> [s.labels EXCEPT !["choices"][i + 1] = pool]]

select_pool(s, i) ==
    LET choices == At(s.labels["choices"], i)
        other(c) == c # i
    IN  [pool |-> IF s.avoid_identity /\ Len(choices) > 1
                  THEN SelectSeq(choices, other) ELSE choices,
         labels |-> s.labels]

\* the call raised: nothing is returned
Raised(i, j, sel, draws, p) ==
    [ok |-> FALSE, i |-> i, j |-> j, pool |-> sel.pool, draws |-> draws,
     view_flipped |-> <<FALSE, FALSE>>, seg_flipped |-> <<FALSE, FALSE>>,
     resize_in |-> <<>>, example |-> <<>>, prng |-> p, labels |-> sel.labels]

Drawn(kind, state) == [kind |-> kind, state |-> state]

FlipDraw(kind, view) == IF view.drew THEN <<Drawn(kind, view.prng)>> ELSE <<>>

\* view0/view1 of the two classes whose preprocess_image flips
pair_of_views(i, j, sel, partner, view0, view1) ==
    IF ~view0.ok THEN Raised(i, j, sel, partner, view0.prng)
    ELSE IF ~view1.ok
         THEN Raised(i, j, sel, partner \o FlipDraw("flip0", view0), view1.prng)
         ELSE [ok |-> TRUE, i |-> i, j |-> j, pool |-> sel.pool,
               draws |-> partner \o FlipDraw("flip0", view0)
                                 \o FlipDraw("flip1", view1),
               view_flipped |-> <<view0.flipped, view1.flipped>>,
               seg_flipped |-> <<FALSE, FALSE>>,
               resize_in |-> <<view0.resize_in, view1.resize_in>>,
               example |-> [view0 |-> view0.image, view1 |-> view1.image],
               prng |-> view1.prng, labels |-> sel.labels]

get_example_StochasticPairs(s, fs, p, i) ==
    LET sel == select_pool(s, i)
        drawn == PrngChoice(p, sel.pool)
        j == drawn.value
        partner == <<Drawn("partner", drawn.state)>>
        view0 == preprocess_image_StochasticPairs(s, fs, drawn.state,
                    At(s.labels["file_path_"], i))
        view1 == preprocess_image_StochasticPairs(s, fs, view0.prng,
                    At(s.labels["file_path_"], j))
    IN  IF sel.pool = <<>> THEN Raised(i, -1, sel, <<>>, p)       \* ValueError
        ELSE IF "file_path_" \notin DOMAIN s.labels
             THEN Raised(i, j, sel, partner, drawn.state)         \* KeyError
             ELSE pair_of_views(i, j, sel, partner, view0, view1)

get_example_WithMask(s, fs, p, i) ==
    LET sel == select_pool(s, i)
        drawn == PrngChoice(p, sel.pool)
        j == drawn.value
        partner == <<Drawn("partner", drawn.state)>>
        view0 == preprocess_image_WithMask(s, fs, drawn.state,
                    At(s.labels["file_path_"], i), At(s.labels["mask_path_"], i))
        view1 == preprocess_image_WithMask(s, fs, view0.prng,
                    At(s.labels["file_path_"], j), At(s.labels["mask_path_"], j))
    IN  IF sel.pool = <<>> THEN Raised(i, -1, sel, <<>>, p)       \* ValueError
        ELSE IF {"file_path_", "mask_path_"} \ DOMAIN s.labels # {}
             THEN Raised(i, j, sel, partner, drawn.state)         \* KeyError
             ELSE pair_of_views(i, j, sel, partner, view0, view1)

\* if self.prng.choice([True, False]): view and segments are flipped together
flip_view_only(coin, view, segments) ==
    [view |-> IF coin THEN Reverse(view) ELSE view,
     segments |-> segments,
     view_flipped |-> coin, seg_flipped |-> FALSE]

flip_together(coin, view, segments) ==
    [view |-> IF coin THEN Reverse(view) ELSE view,
     segments |-> IF coin THEN Reverse(segments) ELSE segments,
     view_flipped |-> coin, seg_flipped |-> coin]

\* the order of the two flip draws: (state before, view) -> the coin's draw
flip_draws_swapped(s, p) ==
    LET coin1 == PrngChoice(p, <<TRUE, FALSE>>)
        coin0 == PrngChoice(coin1.state, <<TRUE, FALSE>>)
    IN  IF s.flip
        THEN [coins |-> <<coin0.value, coin1.value>>,
              draws |-> <<Drawn("flip1", coin1.state),
                          Drawn("flip0", coin0.state)>>,
              prng |-> coin0.state]
        ELSE [coins |-> <<FALSE, FALSE>>, draws |-> <<>>, prng |-> p]

flip_draws(s, p) ==
    LET coin0 == PrngChoice(p, <<TRUE, FALSE>>)
        coin1 == PrngChoice(coin0.state, <<TRUE, FALSE>>)
    IN  IF s.flip
        THEN [coins |-> <<coin0.value, coin1.value>>,
              draws |-> <<Drawn("flip0", coin0.state),
                          Drawn("flip1", coin1.state)>>,
              prng |-> coin1.state]
        ELSE [coins |-> <<FALSE, FALSE>>, draws |-> <<>>, prng |-> p]

\* the segmentation and the flips of the two superpixel classes
pair_with_segments(s, i, j, sel, partner, view0, view1) ==
    IF ~view0.ok \/ ~view1.ok THEN Raised(i, j, sel, partner, view1.prng)
    ELSE LET superpixel_segments0 ==
                 resize_labels(slic(view0.image, s.superpixel_params), s.size)
             superpixel_segments1 ==
                 resize_labels(slic(view1.image, s.superpixel_params), s.size)
             flips == flip_draws(s, view1.prng)
             out0 == flip_together(flips.coins[1], view0.image,
                                   superpixel_segments0)
             out1 == flip_together(flips.coins[2], view1.image,
                                   superpixel_segments1)
         IN  [ok |-> TRUE, i |-> i, j |-> j, pool |-> sel.pool,
              draws |-> partner \o flips.draws,
              view_flipped |-> <<out0.view_flipped, out1.view_flipped>>,
              seg_flipped |-> <<out0.seg_flipped, out1.seg_flipped>>,
              resize_in |-> <<view0.resize_in, view1.resize_in>>,
              example |-> [view0 |-> out0.view, view1 |-> out1.view,
                           segments0 |-> astype_int32(out0.segments),
                           segments1 |-> astype_int32(out1.segments)],
              prng |-> flips.prng, labels |-> sel.labels]

get_example_WithSuperpixels(s, fs, p, i) ==
    LET sel == select_pool(s, i)
        drawn == PrngChoice(p, sel.pool)
        j == drawn.value
        partner == <<Drawn("partner", drawn.state)>>
        view0 == preprocess_image_WithSuperpixels(s, fs, drawn.state,
                    At(s.labels["file_path_"], i))
        view1 == preprocess_image_WithSuperpixels(s, fs, view0.prng,
                    At(s.labels["file_path_"], j))
    IN  IF sel.pool = <<>> THEN Raised(i, -1, sel, <<>>, p)       \* ValueError
        ELSE IF "file_path_" \notin DOMAIN s.labels
             THEN Raised(i, j, sel, partner, drawn.state)         \* KeyError
             ELSE pair_with_segments(s, i, j, sel, partner, view0, view1)

get_example_WithMaskWithSuperpixels(s, fs, p, i) ==
    LET sel == select_pool(s, i)
        drawn == PrngChoice(p, sel.pool)
        j == drawn.value
        partner == <<Drawn("partner", drawn.state)>>
        view0 == preprocess_image_WithMaskWithSuperpixels(s, fs, drawn.state,
                    At(s.labels["file_path_"], i), At(s.labels["mask_path_"], i))
        view1 == preprocess_image_WithMaskWithSuperpixels(s, fs, view0.prng,
                    At(s.labels["file_path_"], j), At(s.labels["mask_path_"], j))
    IN  IF sel.pool = <<>> THEN Raised(i, -1, sel, <<>>, p)       \* ValueError
        ELSE IF {"file_path_", "mask_path_"} \ DOMAIN s.labels # {}
             THEN Raised(i, j, sel, partner, drawn.state)         \* KeyError
             ELSE pair_with_segments(s, i, j, sel, partner, view0, view1)


----------------------------------------------------------------------------
(* Inputs: catalog files, image files, config dicts *)

Ids == {"1", "2"}

ColumnNames == <<"character_id", "relative_file_path_", "relative_mask_path_",
                 "extra", "extra2", "extra3", "extra4">>

\* a data line id,image,mask,... cut to nf fields
DataLine(id, path, nf) ==
    [k \in 1..nf |-> CASE k = 1 -> id
                       [] k = 2 -> path
                       [] k = 3 -> "m.png"
                       [] OTHER -> "x"]

HeaderLine(nf) == [k \in 1..nf |-> ColumnNames[k]]

CsvFiles(fields, headers, rows, paths) ==
    UNION { { (IF h THEN <<HeaderLine(nf)>> ELSE <<>>) \o
              [k \in 1..n |-> DataLine(ids[k], ps[k], nf)] :
                 ids \in [1..n -> Ids], ps \in [1..n -> paths] } :
            nf \in fields, h \in headers, n \in rows }

\* the explicit column-name lists offered to data_csv_columns / data_csv_header
ColumnLists == {SubSeq(ColumnNames, 1, n) : n \in 2..(MaxFields + 1)}

\* the option left out, or set to one of the values
Option(key, values) == {<<>>} \cup {key :> v : v \in values}

RequiredConfig ==
    [data_root |-> "root", data_csv |-> "train.csv", spatial_size |-> SpatialSize]

\* the key the class reads its column names from
ColumnsKey(v) ==
    IF v = "StochasticPairs" THEN "data_csv_columns" ELSE "data_csv_header"

PixelValues == {-1, 0, 1}

MaskValues == {0, 1}

ImageFiles(image, mask) ==
    (<<"root", "a.jpg">> :> image) @@ (<<"root", "m.png">> :> mask)

StandardFiles ==
    ImageFiles([k \in 1..ImgW |-> (k % 3) - 1], [k \in 1..ImgW |-> k % 2])

NoCall ==
    [called |-> FALSE, ok |-> FALSE, i |-> -1, j |-> -1, pool |-> <<>>,
     draws |-> <<>>, view_flipped |-> <<FALSE, FALSE>>,
     seg_flipped |-> <<FALSE, FALSE>>, resize_in |-> <<>>, example |-> <<>>,
     prng |-> 0, labels |-> <<>>, prng_before |-> 0]

InitObject ==
    /\ variant \in Variants
    /\ phase = "new"
    /\ self = <<>>
    /\ last = NoCall
    /\ failed_before = FALSE

\* catalogs of every shape, sampling options left at their defaults
InitCatalog ==
    /\ InitObject
    /\ csv \in CsvFiles(1..MaxFields, BOOLEAN, 0..MaxRows, {"a.jpg"})
    /\ \E h \in Option("data_csv_has_header", {TRUE}),
          c \in Option(ColumnsKey(variant), {FromCsv} \cup ColumnLists) :
            config = RequiredConfig @@ h @@ c
    /\ files = StandardFiles
    /\ prng = 0

\* well-formed catalogs, some rows with an unreadable image, every sampling option
InitSample ==
    /\ InitObject
    /\ csv \in CsvFiles({Len(expected_data_header)}, {FALSE}, 1..MaxRows,
                        {"a.jpg", "missing.jpg"})
    /\ \E a \in Option("data_avoid_identity", {FALSE}),
          f \in Option("data_flip", {TRUE}) :
            config = RequiredConfig @@ a @@ f
    /\ files = StandardFiles
    /\ prng \in PrngStates

\* one readable row, every image and mask content, every masking option
InitMask ==
    /\ InitObject
    /\ csv = <<DataLine("1", "a.jpg", Len(expected_data_header))>>
    /\ \E m \in Option("mask_label", {0}),
          n \in Option("invert_mask", {TRUE}),
          f \in Option("data_flip", {TRUE}) :
            config = RequiredConfig @@ m @@ n @@ f
    /\ \E image \in [1..ImgW -> PixelValues], mask \in [1..ImgW -> MaskValues] :
            files = ImageFiles(image, mask)
    /\ prng = 0

----------------------------------------------------------------------------
(* Actions *)

Constructed(made) ==
    /\ phase' = IF made.ok THEN "ready" ELSE "failed"
    /\ self' = made.self
    /\ UNCHANGED <<variant, config, csv, files, prng, last, failed_before>>

Construct_StochasticPairs ==
    /\ phase = "new" /\ variant = "StochasticPairs"
    /\ Constructed(init_StochasticPairs(variant, <<>>, config, csv))

Construct_WithMask ==
    /\ phase = "new" /\ variant = "StochasticPairsWithMask"
    /\ Constructed(init_WithMask(variant, <<>>, config, csv))

Construct_WithSuperpixels ==
    /\ phase = "new" /\ variant = "StochasticPairsWithSuperpixels"
    /\ Constructed(init_WithSuperpixels(variant, config, csv))

Construct_WithMaskWithSuperpixels ==
    /\ phase = "new" /\ variant = "StochasticPairsWithMaskWithSuperpixels"
    /\ Constructed(init_WithMaskWithSuperpixels(variant, config, csv))

\* the number of rows of the catalog table
NumRows == Len(self.labels["character_id"])

Returned(r) ==
    /\ last' = r @@ [called |-> TRUE, prng_before |-> prng]
    /\ prng' = r.prng
    /\ self' = [self EXCEPT !.labels = r.labels]
    /\ failed_before' = (failed_before \/ (last.called /\ ~last.ok))
    /\ UNCHANGED <<variant, config, csv, files, phase>>

GetExample_StochasticPairs ==
    /\ phase = "ready" /\ variant = "StochasticPairs"
    /\ \E i \in 0..(NumRows - 1) :
          Returned(get_example_StochasticPairs(self, files, prng, i))

GetExample_WithMask ==
    /\ phase = "ready" /\ variant = "StochasticPairsWithMask"
    /\ \E i \in 0..(NumRows - 1) :
          Returned(get_example_WithMask(self, files, prng, i))

GetExample_WithSuperpixels ==
    /\ phase = "ready" /\ variant = "StochasticPairsWithSuperpixels"
    /\ \E i \in 0..(NumRows - 1) :
          Returned(get_example_WithSuperpixels(self, files, prng, i))

GetExample_WithMaskWithSuperpixels ==
    /\ phase = "ready" /\ variant = "StochasticPairsWithMaskWithSuperpixels"
    /\ \E i \in 0..(NumRows - 1) :
          Returned(get_example_WithMaskWithSuperpixels(self, files, prng, i))

Next ==
    \/ Construct_StochasticPairs
    \/ Construct_WithMask
    \/ Construct_WithSuperpixels
    \/ Construct_WithMaskWithSuperpixels
    \/ GetExample_StochasticPairs
    \/ GetExample_WithMask
    \/ GetExample_WithSuperpixels
    \/ GetExample_WithMaskWithSuperpixels

\* construction of every class over catalogs of every shape
Spec == InitCatalog /\ [][Next]_vars

\* sampling over well-formed catalogs
SpecSample == InitSample /\ [][Next]_vars

\* preprocessing over every image and mask content
SpecMask == InitMask /\ [][Next]_vars


----------------------------------------------------------------------------
(* Properties *)

Choices(i) == At(self.labels["choices"], i)

IdentityKey(i) == At(self.labels["character_id"], i)

AvoidIdentity == Get(config, "data_avoid_identity", TRUE)

DataFlip == Get(config, "data_flip", FALSE)

MaskVariants ==
    {"StochasticPairsWithMask", "StochasticPairsWithMaskWithSuperpixels"}

SegmentationVariants ==
    {"StochasticPairsWithSuperpixels", "StochasticPairsWithMaskWithSuperpixels"}

\* a get_example call has drawn a partner
PartnerDrawn == phase = "ready" /\ last.called /\ last.draws # <<>>

C2_PartnerInGroup ==
    (phase = "ready" /\ last.called) =>
        /\ last.pool # <<>>
        /\ last.j \in Range(Choices(last.i))
        /\ last.j \in 0..(NumRows - 1)
        /\ IdentityKey(last.j) = IdentityKey(last.i)
        /\ (Len(Choices(last.i)) = 1 => last.j = last.i)

C2_Witness ==
    /\ PartnerDrawn /\ last.ok
    /\ AvoidIdentity
    /\ NumRows > 1
    /\ Len(Choices(last.i)) = 1
    /\ last.j = last.i

\* C3: after construction the choice sets partition the row indices by
\* identity key: choices[i] is non-empty, holds i, holds exactly the rows with
\* the key of row i, each once, and every index lies in exactly one group.
C3_ChoicesPartitionRows ==
    phase = "ready" =>
        LET ch == self.labels["choices"]
            groups == {Range(ch[r]) : r \in 1..Len(ch)}
        IN  /\ Len(ch) = NumRows
            /\ \A i \in 0..(NumRows - 1) :
                  /\ Choices(i) # <<>>
                  /\ i \in Range(Choices(i))
                  /\ Range(Choices(i)) =
                        {k \in 0..(NumRows - 1) : IdentityKey(k) = IdentityKey(i)}
                  /\ Len(Choices(i)) = Cardinality(Range(Choices(i)))
                  /\ Cardinality({g \in groups : i \in g}) = 1

C3_Witness ==
    /\ phase = "ready"
    /\ NumRows >= 3
    /\ IdentityKey(0) = IdentityKey(2)
    /\ IdentityKey(0) # IdentityKey(1)
    /\ Choices(2) = <<0, 2>>

\* the file has data lines, and data_csv_has_header says whether its first
\* line is a header
WellFormedInput ==
    /\ csv # <<>>
    /\ Get(config, "data_csv_has_header", FALSE) <=> (csv[1] = HeaderLine(Len(csv[1])))
    /\ \E r \in 1..Len(csv) : csv[r] # HeaderLine(Len(csv[r]))

\* C4 (as claimed): the length the dataset reports is the number of rows of
\* the catalog, in every class.
C4_LengthIsRowCount ==
    (phase = "ready" /\ WellFormedInput) => self.length = NumRows

\* the column-name list in force: the configured one, or the class's default
ColumnList ==
    Get(config, ColumnsKey(variant),
        IF variant = "StochasticPairs" THEN expected_data_csv_columns
        ELSE expected_data_header)

\* C5 (as claimed): when the column-name list is longer than the fields of the
\* catalog's rows, construction fails.
C5_ShortRowsFailConstruction ==
    (/\ phase # "new"
     /\ ColumnList # FromCsv
     /\ WellFormedInput
     /\ \A r \in 1..Len(csv) : Len(ColumnList) > Len(csv[r]))
        => phase = "failed"

\* C9 (as claimed): with data_csv_has_header the first line of the file is no
\* catalog row; without it the first line is row 0 (column names given as a
\* list or left at their default).
C9_HeaderLineIsNoRow ==
    (phase = "ready" /\ WellFormedInput /\ ColumnList # FromCsv) =>
        LET skipped == IF Get(config, "data_csv_has_header", FALSE) THEN 1 ELSE 0
        IN  /\ NumRows = Len(csv) - skipped
            /\ \A i \in 0..(NumRows - 1) :
                  IdentityKey(i) = csv[i + 1 + skipped][1]


\* the image (and, in the masking classes, the mask) of row i can be loaded
CanLoad(i) ==
    /\ At(self.labels["file_path_"], i) \in DOMAIN files
    /\ variant \in MaskVariants =>
          At(self.labels["mask_path_"], i) \in DOMAIN files

\* C6: a get_example call, failed or not, leaves the object's attributes
\* (catalog table, choice sets, settings), the config and the files as they
\* were; a failed call returns no record; and whether a call succeeds depends
\* only on the files of the two rows it loads, not on the calls before it.
C6_CallsLeaveDatasetIntact ==
    [][phase = "ready" =>
          /\ self' = self /\ config' = config /\ csv' = csv /\ files' = files
          /\ variant' = variant /\ phase' = phase
          /\ ~last'.ok => last'.example = <<>>
          /\ last'.ok <=> (CanLoad(last'.i) /\ last'.j >= 0 /\ CanLoad(last'.j))
      ]_vars

C6_Witness ==
    /\ phase = "ready" /\ last.called /\ last.ok
    /\ failed_before
    /\ AvoidIdentity /\ Len(Choices(last.i)) > 1
    /\ last.example # <<>>

\* the value of prng.choice([True, False]) that left the source in `state`
CoinOf(state) ==
    <<TRUE, FALSE>>[((state * 2) \div Cardinality(PrngStates)) + 1]

\* C7: with data_flip each view has a draw of its own from the shared source
\* that decides its flip, and a segmentation map is flipped exactly when its
\* view is; without data_flip nothing is flipped.
C7_FlipsInLockstep ==
    (phase = "ready" /\ last.called /\ last.ok) =>
        IF DataFlip
        THEN /\ Len(last.draws) = 3
             /\ last.draws[2].kind = "flip0" /\ last.draws[3].kind = "flip1"
             /\ last.draws[3].state = PrngStep(last.draws[2].state)
             /\ last.view_flipped =
                   <<CoinOf(last.draws[2].state), CoinOf(last.draws[3].state)>>
             /\ last.seg_flipped =
                   IF variant \in SegmentationVariants THEN last.view_flipped
                   ELSE <<FALSE, FALSE>>
        ELSE /\ last.view_flipped = <<FALSE, FALSE>>
             /\ last.seg_flipped = <<FALSE, FALSE>>

C7_Witness ==
    /\ phase = "ready" /\ last.called /\ last.ok
    /\ variant \in SegmentationVariants
    /\ DataFlip
    /\ last.view_flipped = <<TRUE, FALSE>>
    /\ last.seg_flipped = <<TRUE, FALSE>>
    /\ last.example["segments0"] = Reverse(last.example["segments1"])

\* the masked image the claim describes, from the files of row i
MaskedAsClaimed(i) ==
    LET image == files[At(self.labels["file_path_"], i)]
        mask == files[At(self.labels["mask_path_"], i)]
        mask_label == Get(config, "mask_label", 1)
    IN  [k \in 1..Len(image) |->
            IF Get(config, "invert_mask", FALSE)
            THEN (IF mask[k] = mask_label THEN 0 ELSE image[k])
            ELSE (IF mask[k] = mask_label THEN image[k] ELSE 0)]

FlipIf(flipped, image) == IF flipped THEN Reverse(image) ELSE image

\* C8: in the masking classes the image handed to resize is the loaded image
\* where the mask equals mask_label and 0 elsewhere (the reverse with
\* invert_mask), and the view is the resize of that masked image.
C8_MaskedBeforeResize ==
    (phase = "ready" /\ last.called /\ last.ok /\ variant \in MaskVariants) =>
        /\ last.resize_in = <<MaskedAsClaimed(last.i), MaskedAsClaimed(last.j)>>
        /\ last.example["view0"] =
              FlipIf(last.view_flipped[1],
                     resize(MaskedAsClaimed(last.i), config["spatial_size"]))
        /\ last.example["view1"] =
              FlipIf(last.view_flipped[2],
                     resize(MaskedAsClaimed(last.j), config["spatial_size"]))

C8_Witness ==
    /\ phase = "ready" /\ last.called /\ last.ok
    /\ variant \in MaskVariants
    /\ Get(config, "invert_mask", FALSE)
    /\ files[<<"root", "m.png">>][1] = 1 /\ files[<<"root", "m.png">>][2] = 0
    /\ files[<<"root", "a.jpg">>][1] = -1 /\ files[<<"root", "a.jpg">>][2] = 1
    /\ last.resize_in[1][1] = 0 /\ last.resize_in[1][2] = 1

\* the pool of get_example(i), from the choice sets and the config alone
PoolOf(i) ==
    IF AvoidIdentity /\ Len(Choices(i)) > 1
    THEN LET other(c) == c # i IN SelectSeq(Choices(i), other)
    ELSE Choices(i)

\* C10: a successful get_example(i) started in random-source state p makes,
\* in every class, the same draws in the same order: the partner, then (with
\* data_flip only) the flip of view0, then the flip of view1; so partner,
\* flips and the state left behind are one function of catalog, config, i and
\* p, whatever the class.
C10_SameDrawsInEveryVariant ==
    (phase = "ready" /\ last.called /\ last.ok) =>
        LET s1 == PrngStep(last.prng_before)
            s2 == PrngStep(s1)
            s3 == PrngStep(s2)
        IN  /\ last.j = PrngChoice(last.prng_before, PoolOf(last.i)).value
            /\ IF DataFlip
               THEN /\ last.draws = <<Drawn("partner", s1), Drawn("flip0", s2),
                                      Drawn("flip1", s3)>>
                    /\ last.view_flipped = <<CoinOf(s2), CoinOf(s3)>>
                    /\ prng = s3
               ELSE /\ last.draws = <<Drawn("partner", s1)>>
                    /\ last.view_flipped = <<FALSE, FALSE>>
                    /\ prng = s1

C10_Witness ==
    /\ phase = "ready" /\ last.called /\ last.ok
    /\ variant = "StochasticPairsWithMaskWithSuperpixels"
    /\ DataFlip
    /\ Len(last.draws) = 3
    /\ last.j # last.i
    /\ last.view_flipped = <<FALSE, TRUE>>

====
